---- MODULE Spec2Model ----
(***************************************************************************)
(* PixelTune playlist store (src/src/store/playerStore.ts): the playlist,  *)
(* the current index, the playback engine binding, the file cache and the  *)
(* durable snapshot, with the asynchronous initial load, the lyric reads   *)
(* of addFiles, the storage writes and the native start requests in        *)
(* flight, and the lyric store that follows it (the rewritten              *)
(* src/store/lyricStore.ts with src/utils/lrcParser.ts): its lines, active *)
(* line and noLyric flag, driven by the watchers of the current song and   *)
(* of the playback time, and parseLrc itself on texts given character by   *)
(* character.  Each specification below is the stores under the            *)
(* operations of one group of properties; all share the state, Init and    *)
(* the actions.                                                            *)
(*                                                                         *)
(* A file name is the sequence of its parts between dots: "a.mp3" is       *)
(* <<"a", "mp3">>, "a.mp3.mp3" is <<"a", "mp3", "mp3">>, "README" is       *)
(* <<"README">>.  Strings of the program are compared as such sequences.   *)
(* Indices are 0-based as in the program; playlist[i + 1] is song i.       *)
(***************************************************************************)
EXTENDS Integers, Sequences, FiniteSets, TLC

VARIABLES
    playlist,      \* playlist.value: sequence of Song
    currentIndex,  \* currentIndex.value
    isPlaying,     \* isPlaying.value
    audioSrc,      \* audio.src of the AudioPlayer: NoSrc or a song url
    fileCache,     \* the module-level FileCache: song id -> File
    db,            \* localforage key 'my_playlist', with the playlist it was saved from
    writes,        \* setItem calls issued and not yet settled, oldest first
    writeFailed,   \* history: some setItem of this session was rejected
    rejected,      \* where the rejections of savePlaylist() went: "unhandled", "caller"
    loadState,     \* "pending" while loadPlaylist awaits getItem, then "done"
    loadSnap,      \* what the pending getItem resolves with
    calls,         \* addFiles calls awaiting lyric reads
    nextId,        \* the next fresh id of crypto.randomUUID
    playPending,   \* some audio.play() promise is not yet settled
    currentTime,   \* currentTime.value of the player store, in seconds
    lines,         \* lines.value of the lyric store: sequence of LyricLine
    currentLineIndex,  \* currentLineIndex.value of the lyric store
    noLyric,       \* noLyric.value of the lyric store
    songSeen,      \* the {id, lyric} (or null: <<>>) the song watcher last ran on
    timeSeen,      \* the currentTime the time watcher last ran on
    lrcPairs,      \* the (time, text) pairs the text of the call was written from
    lrcText,       \* the argument of the call of parseLrc: a sequence of characters
    parsed         \* what that call returned

\* A call of parseLrc on a text given character by character
parserVars == <<lrcPairs, lrcText, parsed>>

\* The lyric store (with the time it watches) and its watchers, and the
\* parser call
lyricVars == <<currentTime, lines, currentLineIndex, noLyric, songSeen, timeSeen,
               lrcPairs, lrcText, parsed>>

vars == <<playlist, currentIndex, isPlaying, audioSrc, fileCache, db, writes,
          writeFailed, rejected, loadState, loadSnap, calls, nextId, playPending,
          currentTime, lines, currentLineIndex, noLyric, songSeen, timeSeen,
          lrcPairs, lrcText, parsed>>

\* ---------------------------------------------------------------- bounds
MaxNew == 2        \* songs created in this session
MaxWrites == 1     \* storage writes in flight
MaxLoopNew == 3    \* songs created in this session, in SpecLoop
MaxWritesNew == 1  \* songs created in this session, in SpecWrites
MaxLines == 2      \* lines of a text handed to parseLrc
MaxPairs == 2      \* (time, text) pairs written as one text

\* ---------------------------------------------------------------- values
NoSrc == <<"none">>
ObjectURL(id) == <<"blob", id>>

ALLOWED_EXTENSIONS == {"mp3", "flac", "wav", "ogg", "m4a", "aac"}

toLowerCase(s) ==
    CASE s = "MP3" -> "mp3"
      [] s = "FLAC" -> "flac"
      [] s = "LRC" -> "lrc"
      [] OTHER -> s

\* filename.substring(0, filename.lastIndexOf('.')): the empty string when
\* the name has no dot
getBaseName(filename) ==
    IF Len(filename) > 1 THEN SubSeq(filename, 1, Len(filename) - 1) ELSE <<"">>

\* parts.length > 1 ? parts.pop()?.toLowerCase() : ''
extensionOf(filename) ==
    IF Len(filename) > 1 THEN toLowerCase(filename[Len(filename)]) ELSE ""

\* The text of the lyric files of the batches
LrcText == "[00:01]x"

\* The batches handed to addFiles
Batches == {
    << <<"a", "mp3">> >>,
    << <<"a", "lrc">>, <<"a", "mp3">> >>,
    << <<"a", "mp3">>, <<"a", "FLAC">> >>,
    << <<"a", "mp3", "mp3">> >>,
    << <<"a", "lrc">>, <<"n", "txt">>, <<"README">> >> }

\* The batches with lyric files for several audio files, whose reads settle
\* in any order
LyricBatches == {
    << <<"b", "lrc">>, <<"b", "mp3">>, <<"c", "mp3">>, <<"c", "lrc">> >>,
    << <<"a", "mp3">>, <<"b", "lrc">>, <<"b", "mp3">> >>,
    << <<"c", "lrc">>, <<"c", "mp3">> >> }

\* The lyric texts handed to updateLyric
LyricInputs == {"[00:02]y"}

\* ---------------------------------------------------------------- helpers
\* The value of a property that is not set
Undefined == "undefined"

RECURSIVE Flatten(_)
Flatten(ss) == IF ss = <<>> THEN <<>> ELSE Head(ss) \o Flatten(Tail(ss))

\* classifyFiles: the audio files of the batch, in input order
audioFilesOf(files) ==
    SelectSeq(files, LAMBDA f : extensionOf(f) \in ALLOWED_EXTENSIONS)

\* classifyFiles: lrcMap.has(base) (files whose extension is empty or an
\* allowed audio extension never reach the 'lrc' branch)
lrcMapHas(files, base) ==
    \E k \in 1..Len(files) :
        /\ extensionOf(files[k]) = "lrc"
        /\ getBaseName(files[k]) = base

\* FileCache
FileCacheSet(fc, id, file) ==
    [i \in DOMAIN fc \cup {id} |-> IF i = id THEN file ELSE fc[i]]
FileCacheHas(fc, id) == id \in DOMAIN fc
FileCacheRemove(fc, id) == [i \in DOMAIN fc \ {id} |-> fc[i]]

\* currentSong (computed)
currentSongExists == currentIndex >= 0 /\ currentIndex < Len(playlist)

\* isDuplicateFile: playlist.value.some(song => song.name === file.name)
isDuplicateFile(pl, file) == \E k \in 1..Len(pl) : pl[k].name = file

\* createSong: the Song object (the cache entry is set by the caller)
createSong(id, file, lyricContent) ==
    [id |-> id, name |-> getBaseName(file), url |-> ObjectURL(id),
     duration |-> 0, lyric |-> lyricContent]

\* savePlaylist with the lyric left out of the record
savePlaylistNoLyric(pl, fc) ==
    LET kept == SelectSeq(pl, LAMBDA song : FileCacheHas(fc, song.id))
    IN  [k \in 1..Len(kept) |->
            [id |-> kept[k].id, name |-> kept[k].name,
             file |-> fc[kept[k].id], lyric |-> Undefined]]

\* savePlaylist: dataToSave, one record per song whose file is cached
savePlaylist(pl, fc) ==
    LET kept == SelectSeq(pl, LAMBDA song : FileCacheHas(fc, song.id))
    IN  [k \in 1..Len(kept) |->
            [id |-> kept[k].id, name |-> kept[k].name,
             file |-> fc[kept[k].id], lyric |-> kept[k].lyric]]

\* A setItem call: the snapshot, with its history: the playlist and the
\* file cache it was computed from, and the operation that issued it (by:
\* its name, its index argument or -1, and currentIndex when it was called)
WriteOf(pl, fc, by) ==
    [data |-> savePlaylist(pl, fc), src |-> pl, cacheAt |-> fc, by |-> by]

By(op, arg) == [op |-> op, arg |-> arg, ci |-> currentIndex]

\* Where a rejection of the promise of savePlaylist() goes: updateLyric
\* awaits it outside any try, so its own promise rejects to its caller;
\* addSongsToPlaylist and removeSong drop it, so it is left unhandled
rejectionOf(by) == IF by.op = "updateLyric" THEN "caller" ELSE "unhandled"

\* loadPlaylist: item.lyric || ''
lyricOrEmpty(lyric) == IF lyric = Undefined \/ lyric = "" THEN "" ELSE lyric

\* loadPlaylist, step 1: the file cache with every record's file set
restoreCache(fc, savedList) ==
    LET ids == {savedList[k].id : k \in 1..Len(savedList)}
        fileOf(i) == (CHOOSE k \in 1..Len(savedList) :
                         /\ savedList[k].id = i
                         /\ \A j \in (k + 1)..Len(savedList) : savedList[j].id # i)
    IN  [i \in DOMAIN fc \cup ids |->
            IF i \in ids THEN savedList[fileOf(i)].file ELSE fc[i]]

\* loadPlaylist, step 2: the playlist rebuilt from the records
restorePlaylist(savedList) ==
    [k \in 1..Len(savedList) |->
        [id |-> savedList[k].id, name |-> savedList[k].name,
         url |-> ObjectURL(savedList[k].id), duration |-> 0,
         lyric |-> lyricOrEmpty(savedList[k].lyric)]]

\* A nextSong that wraps to the second song
nextIndexSkipFirst(ci, len) ==
    IF ci + 1 >= len THEN (IF len > 1 THEN 1 ELSE 0) ELSE ci + 1

\* nextSong: the index handed to playIndex
nextIndex(ci, len) == IF ci + 1 >= len THEN 0 ELSE ci + 1

\* removeSong without the wrap to 0 after the last song was removed
removeSongIndexNoWrap(ci, index, lenAfter) ==
    IF lenAfter = 0 THEN -1
    ELSE IF index = ci THEN ci
    ELSE IF index < ci THEN ci - 1
    ELSE ci

\* removeSong: currentIndex after the splice (lenAfter is the new length)
removeSongIndex(ci, index, lenAfter) ==
    IF lenAfter = 0 THEN -1
    ELSE IF index = ci THEN (IF index >= lenAfter THEN 0 ELSE ci)
    ELSE IF index < ci THEN ci - 1
    ELSE ci

\* playlist.value.splice(index, 1)
splice(pl, index) ==
    [k \in 1..(Len(pl) - 1) |-> IF k <= index THEN pl[k] ELSE pl[k + 1]]

\* ---------------------------------------------------------------- Init
\* The previous sessions considered: what each song of the playlist they
\* saved was imported from, and its lyric when the session saved
PrevShapes == {
    <<>>,
    << [file |-> <<"a", "mp3">>, lyric |-> LrcText] >>,
    << [file |-> <<"a", "mp3">>, lyric |-> LrcText],
       [file |-> <<"b", "mp3">>, lyric |-> ""] >> }

\* The playlist and the file cache of the previous session when it saved
PrevPlaylist(shape) ==
    [k \in 1..Len(shape) |-> createSong(k, shape[k].file, shape[k].lyric)]
PrevCache(shape) == [k \in 1..Len(shape) |-> shape[k].file]

\* usePlayerStore setup: the refs, new AudioPlayer, and initAudio, whose
\* loadPlaylist is awaiting getItem
Init ==
    /\ playlist = <<>>
    /\ currentIndex = -1
    /\ isPlaying = FALSE
    /\ audioSrc = NoSrc
    /\ fileCache = <<>>
    /\ \E shape \in PrevShapes :
          /\ db = WriteOf(PrevPlaylist(shape), PrevCache(shape),
                       [op |-> "previous", arg |-> -1, ci |-> -1])
          /\ loadSnap = db.data
          /\ nextId = Len(shape) + 1
    /\ writes = <<>>
    /\ writeFailed = FALSE
    /\ rejected = {}
    /\ loadState = "pending"
    /\ calls = <<>>
    /\ playPending = FALSE
    /\ currentTime = 0
    /\ lines = <<>>
    /\ currentLineIndex = -1
    /\ noLyric = FALSE
    /\ songSeen = <<>>
    /\ timeSeen = 0
    /\ lrcPairs = <<>>
    /\ lrcText = <<>>
    /\ parsed = <<>>

\* ---------------------------------------------------------------- engine
\* loadSong that leaves audio.src alone
loadSongNoBind(song) == UNCHANGED audioSrc

\* AudioPlayer.loadSong
loadSong(song) == audioSrc' = song.url

\* AudioPlayer.play, up to its await: isPlaying set, the start request issued
play == isPlaying' = TRUE /\ playPending' = TRUE

\* AudioPlayer.pause
pause == isPlaying' = FALSE

\* ---------------------------------------------------------------- store
\* savePlaylist(), called on the updated playlist and cache
issueSave(pl, fc, by) == writes' = Append(writes, WriteOf(pl, fc, by))

\* addSongsToPlaylist that saves the playlist before it appends the songs
addSongsToPlaylistSaveFirst(songs, fc) ==
    /\ playlist' = playlist \o songs
    /\ issueSave(playlist, fc, By("addFiles", -1))
    /\ IF currentIndex = -1
       THEN currentIndex' = 0 /\ loadSong((playlist \o songs)[1])
       ELSE UNCHANGED <<currentIndex, audioSrc>>

\* addSongsToPlaylist, for a non-empty list of songs
addSongsToPlaylist(songs, fc) ==
    /\ playlist' = playlist \o songs
    /\ issueSave(playlist \o songs, fc, By("addFiles", -1))
    /\ IF currentIndex = -1
       THEN currentIndex' = 0 /\ loadSong((playlist \o songs)[1])
       ELSE UNCHANGED <<currentIndex, audioSrc>>

\* addFiles after Promise.all: the non-null songs, in the order of the audio files
finishAddFiles(slots, fc) ==
    LET validSongs == Flatten([k \in 1..Len(slots) |-> slots[k].song])
    IN  IF Len(validSongs) > 0
        THEN addSongsToPlaylist(validSongs, fc)
        ELSE UNCHANGED <<playlist, writes, currentIndex, audioSrc>>

\* The songs a call may still create
readingOf(call) == {k \in 1..Len(call) : call[k].st = "reading"}
RECURSIVE readingTotal(_)
readingTotal(cs) ==
    IF cs = <<>> THEN 0
    ELSE Cardinality(readingOf(Head(cs))) + readingTotal(Tail(cs))

\* Songs created or still to be created in this session
NewCount == nextId - 1 - Len(loadSnap) + readingTotal(calls)

\* processAudioFile up to its await, for every audio file of the batch: a
\* duplicate resolves to null, a file with a lyric file awaits its text, a
\* file with none has its song created right after (readLyricContent
\* resolves at once with '')
startSlots(files) ==
    LET audio == audioFilesOf(files)
        now(k) == /\ ~isDuplicateFile(playlist, audio[k])
                  /\ ~lrcMapHas(files, getBaseName(audio[k]))
        idOf(k) == nextId + Cardinality({j \in 1..(k - 1) : now(j)})
    IN  [k \in 1..Len(audio) |->
            IF isDuplicateFile(playlist, audio[k])
            THEN [file |-> audio[k], st |-> "null", song |-> <<>>]
            ELSE IF lrcMapHas(files, getBaseName(audio[k]))
            THEN [file |-> audio[k], st |-> "reading", song |-> <<>>]
            ELSE [file |-> audio[k], st |-> "song",
                  song |-> <<createSong(idOf(k), audio[k], "")>>]]

createdOf(slots) == {k \in 1..Len(slots) : slots[k].st = "song"}

RECURSIVE cacheAll(_, _, _)
cacheAll(fc, slots, ks) ==
    IF ks = {} THEN fc
    ELSE LET k == CHOOSE x \in ks : TRUE
         IN  cacheAll(FileCacheSet(fc, slots[k].song[1].id, slots[k].file),
                      slots, ks \ {k})

\* addFiles(files), while the session has created fewer than limit songs
AddFilesUpTo(files, limit) ==
    LET slots == startSlots(files)
        fc == cacheAll(fileCache, slots, createdOf(slots))
        wanted == Cardinality({k \in 1..Len(slots) : slots[k].st # "null"})
    IN  /\ NewCount + wanted <= limit
        /\ UNCHANGED lyricVars
        /\ fileCache' = fc
        /\ nextId' = nextId + Cardinality(createdOf(slots))
        /\ UNCHANGED <<isPlaying, db, writeFailed, rejected, loadState, loadSnap, playPending>>
        /\ IF Len(slots) = 0
           THEN UNCHANGED <<playlist, writes, currentIndex, audioSrc, calls>>
           ELSE IF readingOf(slots) # {}
           THEN /\ calls' = Append(calls, slots)
                /\ UNCHANGED <<playlist, writes, currentIndex, audioSrc>>
           ELSE /\ createdOf(slots) # {} => Len(writes) < MaxWrites
                /\ finishAddFiles(slots, fc)
                /\ UNCHANGED calls

AddFiles(files) == AddFilesUpTo(files, MaxNew)

\* A lyric read after which the song is appended at once
ReadLyricAppendEach(c, k, ok) ==
    /\ UNCHANGED lyricVars
    /\ c \in 1..Len(calls)
    /\ k \in readingOf(calls[c])
    /\ LET song == createSong(nextId, calls[c][k].file, IF ok THEN LrcText ELSE "")
           slots == [calls[c] EXCEPT ![k] = [file |-> @.file, st |-> "song",
                                             song |-> <<song>>]]
           fc == FileCacheSet(fileCache, nextId, calls[c][k].file)
       IN  /\ fileCache' = fc
           /\ nextId' = nextId + 1
           /\ UNCHANGED <<isPlaying, db, writeFailed, rejected, loadState, loadSnap, playPending>>
           /\ IF readingOf(slots) # {}
              THEN /\ calls' = [calls EXCEPT ![c] = slots]
                   /\ playlist' = playlist \o <<song>>
                   /\ UNCHANGED <<writes, currentIndex, audioSrc>>
              ELSE /\ Len(writes) < MaxWrites
                   /\ calls' = [j \in 1..(Len(calls) - 1) |->
                                   IF j < c THEN calls[j] ELSE calls[j + 1]]
                   /\ finishAddFiles(slots, fc)

\* A lyric read of a pending addFiles settles (ok: with the text, else
\* readLyricContent catches and returns ''), createSong runs, and when it
\* was the last read of the call, Promise.all resolves and addFiles goes on
ReadLyric(c, k, ok) ==
    /\ UNCHANGED lyricVars
    /\ c \in 1..Len(calls)
    /\ k \in readingOf(calls[c])
    /\ LET song == createSong(nextId, calls[c][k].file, IF ok THEN LrcText ELSE "")
           slots == [calls[c] EXCEPT ![k] = [file |-> @.file, st |-> "song",
                                             song |-> <<song>>]]
           fc == FileCacheSet(fileCache, nextId, calls[c][k].file)
       IN  /\ fileCache' = fc
           /\ nextId' = nextId + 1
           /\ UNCHANGED <<isPlaying, db, writeFailed, rejected, loadState, loadSnap, playPending>>
           /\ IF readingOf(slots) # {}
              THEN /\ calls' = [calls EXCEPT ![c] = slots]
                   /\ UNCHANGED <<playlist, writes, currentIndex, audioSrc>>
              ELSE /\ Len(writes) < MaxWrites
                   /\ calls' = [j \in 1..(Len(calls) - 1) |->
                                   IF j < c THEN calls[j] ELSE calls[j + 1]]
                   /\ finishAddFiles(slots, fc)

\* loadPlaylist after getItem resolved
LoadComplete ==
    /\ UNCHANGED lyricVars
    /\ loadState = "pending"
    /\ loadState' = "done"
    /\ UNCHANGED <<isPlaying, db, writes, writeFailed, rejected, loadSnap, calls, nextId,
                   playPending>>
    /\ IF Len(loadSnap) > 0
       THEN /\ fileCache' = restoreCache(fileCache, loadSnap)
            /\ playlist' = restorePlaylist(loadSnap)
            /\ IF currentIndex = -1
               THEN currentIndex' = 0 /\ loadSong(restorePlaylist(loadSnap)[1])
               ELSE UNCHANGED <<currentIndex, audioSrc>>
       ELSE UNCHANGED <<fileCache, playlist, currentIndex, audioSrc>>

\* loadPlaylist when getItem rejects: caught and logged
LoadFail ==
    /\ UNCHANGED lyricVars
    /\ loadState = "pending"
    /\ loadState' = "done"
    /\ UNCHANGED <<playlist, currentIndex, isPlaying, audioSrc, fileCache, db,
                   writes, writeFailed, rejected, loadSnap, calls, nextId, playPending>>

\* loadPlaylist when record k of the stored list has lost its file: step 1
\* caches the files of the other records, then URL.createObjectURL throws in
\* the map of step 2 before playlist.value is assigned; caught and logged
LoadBadRecord(k) ==
    /\ UNCHANGED lyricVars
    /\ loadState = "pending"
    /\ k \in 1..Len(loadSnap)
    /\ loadState' = "done"
    /\ fileCache' = restoreCache(fileCache,
                        SelectSeq(loadSnap, LAMBDA item : item.id # loadSnap[k].id))
    /\ UNCHANGED <<playlist, currentIndex, isPlaying, audioSrc, db, writes,
                   writeFailed, rejected, loadSnap, calls, nextId, playPending>>

\* The oldest setItem is applied by the storage
WriteComplete ==
    /\ UNCHANGED lyricVars
    /\ writes # <<>>
    /\ db' = Head(writes)
    /\ writes' = Tail(writes)
    /\ UNCHANGED <<playlist, currentIndex, isPlaying, audioSrc, fileCache,
                   writeFailed, rejected, loadState, loadSnap, calls, nextId, playPending>>

\* The oldest setItem is rejected by the storage
WriteFail ==
    /\ UNCHANGED lyricVars
    /\ writes # <<>>
    /\ writes' = Tail(writes)
    /\ writeFailed' = TRUE
    /\ rejected' = rejected \cup {rejectionOf(Head(writes).by)}
    /\ UNCHANGED <<playlist, currentIndex, isPlaying, audioSrc, fileCache, db,
                   loadState, loadSnap, calls, nextId, playPending>>

\* playIndex that binds the song and leaves the start to the user
playIndexBodyNoPlay(index) ==
    IF index < 0 \/ index >= Len(playlist)
    THEN UNCHANGED <<currentIndex, audioSrc, isPlaying, playPending>>
    ELSE /\ currentIndex' = index
         /\ loadSong(playlist[index + 1])
         /\ UNCHANGED <<isPlaying, playPending>>

\* playIndex without the range check
playIndexBodyNoCheck(index) ==
    IF index < 0 \/ index >= Len(playlist)
    THEN /\ currentIndex' = index
         /\ UNCHANGED <<audioSrc, isPlaying, playPending>>
    ELSE /\ currentIndex' = index
         /\ loadSong(playlist[index + 1])
         /\ play

\* playIndex(index), the body shared with nextSong
playIndexBody(index) ==
    IF index < 0 \/ index >= Len(playlist)
    THEN UNCHANGED <<currentIndex, audioSrc, isPlaying, playPending>>
    ELSE /\ currentIndex' = index
         /\ loadSong(playlist[index + 1])
         /\ play

PlayIndex(index) ==
    /\ UNCHANGED lyricVars
    /\ playIndexBody(index)
    /\ UNCHANGED <<playlist, fileCache, db, writes, writeFailed, rejected, loadState,
                   loadSnap, calls, nextId>>

\* nextSong(), called by the user
NextSong ==
    /\ UNCHANGED lyricVars
    /\ playIndexBody(nextIndex(currentIndex, Len(playlist)))
    /\ UNCHANGED <<playlist, fileCache, db, writes, writeFailed, rejected, loadState,
                   loadSnap, calls, nextId>>

\* The 'ended' event of the audio element: onEndedCallback is nextSong
Ended ==
    /\ UNCHANGED lyricVars
    /\ isPlaying
    /\ audioSrc # NoSrc
    /\ playIndexBody(nextIndex(currentIndex, Len(playlist)))
    /\ UNCHANGED <<playlist, fileCache, db, writes, writeFailed, rejected, loadState,
                   loadSnap, calls, nextId>>

\* togglePlay(forceState): force is "none", "play" or "pause"
TogglePlay(force) ==
    LET shouldPlay == IF force = "none" THEN ~isPlaying ELSE force = "play"
    IN  /\ UNCHANGED lyricVars
        /\ UNCHANGED <<playlist, currentIndex, audioSrc, fileCache, db, writes,
                       writeFailed, rejected, loadState, loadSnap, calls, nextId>>
        /\ IF ~currentSongExists
           THEN UNCHANGED <<isPlaying, playPending>>
           ELSE IF shouldPlay
           THEN play
           ELSE pause /\ UNCHANGED playPending

\* A start request settles and isPlaying is kept whatever the outcome
PlaySettleKeep(outcome, more) ==
    /\ UNCHANGED lyricVars
    /\ playPending
    /\ playPending' = more
    /\ UNCHANGED <<playlist, currentIndex, isPlaying, audioSrc, fileCache, db,
                   writes, writeFailed, rejected, loadState, loadSnap, calls, nextId>>

\* A start request settles and isPlaying follows its outcome: true when it
\* is fulfilled, false when it is rejected
PlaySettleFollow(outcome, more) ==
    /\ UNCHANGED lyricVars
    /\ playPending
    /\ playPending' = more
    /\ isPlaying' = (outcome = "ok")
    /\ UNCHANGED <<playlist, currentIndex, audioSrc, fileCache, db, writes,
                   writeFailed, rejected, loadState, loadSnap, calls, nextId>>

\* A start request settles: fulfilled, rejected with AbortError (ignored),
\* or rejected with another error (isPlaying reverted)
PlaySettle(outcome, more) ==
    /\ UNCHANGED lyricVars
    /\ playPending
    /\ playPending' = more
    /\ isPlaying' = IF outcome = "error" THEN FALSE ELSE isPlaying
    /\ UNCHANGED <<playlist, currentIndex, audioSrc, fileCache, db, writes,
                   writeFailed, rejected, loadState, loadSnap, calls, nextId>>

\* removeSong that saves the playlist before it releases and removes the song
RemoveSongSaveFirst(index) ==
    /\ UNCHANGED lyricVars
    /\ UNCHANGED <<db, writeFailed, rejected, loadState, loadSnap, calls, nextId, playPending>>
    /\ IF index < 0 \/ index >= Len(playlist)
       THEN UNCHANGED <<playlist, currentIndex, isPlaying, audioSrc, fileCache, writes>>
       ELSE LET songToDelete == playlist[index + 1]
                fc == FileCacheRemove(fileCache, songToDelete.id)
                wasPlaying == index = currentIndex
                pl == splice(playlist, index)
                ci == removeSongIndex(currentIndex, index, Len(pl))
            IN  /\ Len(writes) < MaxWrites
                /\ fileCache' = fc
                /\ IF wasPlaying THEN pause ELSE UNCHANGED isPlaying
                /\ playlist' = pl
                /\ currentIndex' = ci
                /\ IF Len(pl) > 0 /\ wasPlaying /\ ci >= 0 /\ ci < Len(pl)
                   THEN loadSong(pl[ci + 1])
                   ELSE UNCHANGED audioSrc
                /\ issueSave(playlist, fileCache, By("removeSong", index))

\* removeSong(index)
RemoveSong(index) ==
    /\ UNCHANGED lyricVars
    /\ UNCHANGED <<db, writeFailed, rejected, loadState, loadSnap, calls, nextId, playPending>>
    /\ IF index < 0 \/ index >= Len(playlist)
       THEN UNCHANGED <<playlist, currentIndex, isPlaying, audioSrc, fileCache, writes>>
       ELSE LET songToDelete == playlist[index + 1]
                fc == FileCacheRemove(fileCache, songToDelete.id)
                wasPlaying == index = currentIndex
                pl == splice(playlist, index)
                ci == removeSongIndex(currentIndex, index, Len(pl))
            IN  /\ Len(writes) < MaxWrites
                /\ fileCache' = fc
                /\ IF wasPlaying THEN pause ELSE UNCHANGED isPlaying
                /\ playlist' = pl
                /\ currentIndex' = ci
                /\ IF Len(pl) > 0 /\ wasPlaying /\ ci >= 0 /\ ci < Len(pl)
                   THEN loadSong(pl[ci + 1])
                   ELSE UNCHANGED audioSrc
                /\ issueSave(pl, fc, By("removeSong", index))

\* updateLyric that gives the lyric to every song of the same name
UpdateLyricByName(index, lyricContent) ==
    /\ UNCHANGED lyricVars
    /\ UNCHANGED <<currentIndex, isPlaying, audioSrc, fileCache, db, writeFailed, rejected,
                   loadState, loadSnap, calls, nextId, playPending>>
    /\ IF index < 0 \/ index >= Len(playlist)
       THEN UNCHANGED <<playlist, writes>>
       ELSE LET pl == [k \in 1..Len(playlist) |->
                         IF playlist[k].name = playlist[index + 1].name
                         THEN [playlist[k] EXCEPT !.lyric = lyricContent]
                         ELSE playlist[k]]
            IN  /\ Len(writes) < MaxWrites
                /\ playlist' = pl
                /\ issueSave(pl, fileCache, By("updateLyric", index))

\* updateLyric(index, lyricContent)
UpdateLyric(index, lyricContent) ==
    /\ UNCHANGED lyricVars
    /\ UNCHANGED <<currentIndex, isPlaying, audioSrc, fileCache, db, writeFailed, rejected,
                   loadState, loadSnap, calls, nextId, playPending>>
    /\ IF index < 0 \/ index >= Len(playlist)
       THEN UNCHANGED <<playlist, writes>>
       ELSE LET pl == [playlist EXCEPT ![index + 1].lyric = lyricContent]
            IN  /\ Len(writes) < MaxWrites
                /\ playlist' = pl
                /\ issueSave(pl, fileCache, By("updateLyric", index))

\* ---------------------------------------------------------------- lyrics
\* The player store, which the actions of the lyric store leave alone
playerVars == <<playlist, currentIndex, isPlaying, audioSrc, fileCache, db, writes,
                writeFailed, rejected, loadState, loadSnap, calls, nextId, playPending>>

\* Lyric texts: three lines out of time order, blanks only, text without a
\* time tag, a tag without text
ThreeLines == "[00:10]b\n[00:05]a\n[00:15]c"
Blank == "   "
NoTag == "no tags"
TagOnly == "[00:03]"

\* The lyric texts handed to updateLyric while the lyric store is observed
LyricTexts == {ThreeLines, Blank, NoTag, TagOnly, "[00:02]y", ""}

\* The playback times reported by the audio element or asked for by seek
Times == {0, 5, 12, 999}

\* String.prototype.trim
trim(str) == IF str = Blank THEN "" ELSE str

\* parseLrc: lrc.split('\n'), and for each line timeReg.exec(line): the
\* minutes and seconds of the first tag (tag is <<>> when nothing matches)
\* and line.replace(timeReg, '').trim()
matchLines(lrc) ==
    CASE lrc = ThreeLines ->
            << [tag |-> <<0, 10>>, text |-> "b"],
               [tag |-> <<0, 5>>, text |-> "a"],
               [tag |-> <<0, 15>>, text |-> "c"] >>
      [] lrc = "[00:01]x" -> << [tag |-> <<0, 1>>, text |-> "x"] >>
      [] lrc = "[00:02]y" -> << [tag |-> <<0, 2>>, text |-> "y"] >>
      [] lrc = TagOnly -> << [tag |-> <<0, 3>>, text |-> ""] >>
      [] OTHER -> << [tag |-> <<>>, text |-> trim(lrc)] >>

\* A sort that returns the lines in source order
sortByTimeKeepOrder(ls) == ls

\* Array.prototype.sort((a, b) => a.time - b.time), which is stable
RECURSIVE sortByTime(_)
sortByTime(ls) ==
    IF Len(ls) <= 1 THEN ls
    ELSE LET x == ls[Len(ls)]
             front == sortByTime(SubSeq(ls, 1, Len(ls) - 1))
             before == SelectSeq(front, LAMBDA l : l.time <= x.time)
             after == SelectSeq(front, LAMBDA l : l.time > x.time)
         IN  before \o <<x>> \o after

\* parseLrc
parseLrc(lrc) ==
    LET matched == SelectSeq(matchLines(lrc),
                             LAMBDA l : l.tag # <<>> /\ l.text # "")
    IN  sortByTime([k \in 1..Len(matched) |->
                       [time |-> matched[k].tag[1] * 60 + matched[k].tag[2],
                        text |-> matched[k].text]])

\* parseLyricContent
parseLyricContent(lyricContent) ==
    IF lyricContent = Undefined \/ lyricContent = "" \/ trim(lyricContent) = ""
    THEN <<>>
    ELSE parseLrc(lyricContent)

\* findCurrentLineIndex without the clamp to the first line
findCurrentLineIndexNoClamp(ls, time) ==
    IF Len(ls) = 0 THEN -1
    ELSE LET later == {k \in 1..Len(ls) : ls[k].time > time}
         IN  IF later = {} THEN Len(ls) - 1
             ELSE (CHOOSE k \in later : \A j \in later : k <= j) - 2

\* findCurrentLineIndex that looks for the first line with time >= currentTime
findCurrentLineIndexAtOrAfter(ls, time) ==
    IF Len(ls) = 0 THEN -1
    ELSE LET later == {k \in 1..Len(ls) : ls[k].time >= time}
             index == IF later = {} THEN -1
                      ELSE (CHOOSE k \in later : \A j \in later : k <= j) - 1
         IN  IF index = -1 THEN Len(ls) - 1
             ELSE IF index > 0 THEN index - 1
             ELSE 0

\* findCurrentLineIndex: index is lines.findIndex(line => line.time > currentTime)
findCurrentLineIndex(ls, time) ==
    IF Len(ls) = 0 THEN -1
    ELSE LET later == {k \in 1..Len(ls) : ls[k].time > time}
             index == IF later = {} THEN -1
                      ELSE (CHOOSE k \in later : \A j \in later : k <= j) - 1
         IN  IF index = -1 THEN Len(ls) - 1
             ELSE IF index > 0 THEN index - 1
             ELSE 0

\* The state of the lyric store, as a record
lyricState ==
    [lines |-> lines, currentLineIndex |-> currentLineIndex, noLyric |-> noLyric]

\* resetLyricState that leaves the active index alone
resetLyricStateKeepIndex(st) == [st EXCEPT !.lines = <<>>, !.noLyric = FALSE]

\* resetLyricState
resetLyricState(st) ==
    [st EXCEPT !.lines = <<>>, !.currentLineIndex = -1, !.noLyric = FALSE]

\* The song watcher of the store before its rewrite (src/store/lyricStore.ts):
\* noLyric is set only for a blank lyric
updateLyricDataOriginal(st, lyricContent) ==
    IF lyricContent # Undefined /\ lyricContent # "" /\ trim(lyricContent) # ""
    THEN [st EXCEPT !.lines = parseLrc(lyricContent), !.noLyric = FALSE]
    ELSE [st EXCEPT !.noLyric = TRUE]

\* updateLyricData
updateLyricData(st, lyricContent) ==
    LET parsedLines == parseLyricContent(lyricContent)
    IN  IF Len(parsedLines) > 0
        THEN [st EXCEPT !.lines = parsedLines, !.noLyric = FALSE]
        ELSE [st EXCEPT !.lines = <<>>, !.noLyric = TRUE]

\* handleSongChange that raises noLyric when there is no current song
handleSongChangeFlagNoSong(st, songData) ==
    IF songData = <<>> THEN [resetLyricState(st) EXCEPT !.noLyric = TRUE]
    ELSE updateLyricData(resetLyricState(st), songData[1].lyric)

\* handleSongChange that resets nothing and keeps the lines of the previous
\* song when there is no current song
handleSongChangeNoReset(st, songData) ==
    IF songData = <<>> THEN st
    ELSE updateLyricData(st, songData[1].lyric)

\* handleSongChange
handleSongChange(st, songData) ==
    IF songData = <<>> THEN resetLyricState(st)
    ELSE updateLyricData(resetLyricState(st), songData[1].lyric)

\* The source of the song watcher: the id and lyric of currentSong, or null
songKey(pl, ci) ==
    IF ci >= 0 /\ ci < Len(pl)
    THEN <<[id |-> pl[ci + 1].id, lyric |-> pl[ci + 1].lyric]>>
    ELSE <<>>

\* Both watchers have run on the present song and time
Flushed == songKey(playlist, currentIndex) = songSeen /\ currentTime = timeSeen

\* Moreover no storage write is in flight
Settled == Flushed /\ writes = <<>>

\* Moreover the initial load is done
Quiet == Settled /\ loadState = "done"

\* The song watcher runs: the current song or its lyric changed
SongWatch ==
    /\ songKey(playlist, currentIndex) # songSeen
    /\ UNCHANGED parserVars
    /\ songSeen' = songKey(playlist, currentIndex)
    /\ LET st == handleSongChange(lyricState, songKey(playlist, currentIndex))
       IN  /\ lines' = st.lines
           /\ currentLineIndex' = st.currentLineIndex
           /\ noLyric' = st.noLyric
    /\ UNCHANGED <<currentTime, timeSeen>>
    /\ UNCHANGED playerVars

\* A time watcher that also skips to the next song once the time is past
\* the last line
TimeWatchAdvance ==
    /\ songKey(playlist, currentIndex) = songSeen
    /\ UNCHANGED parserVars
    /\ currentTime # timeSeen
    /\ timeSeen' = currentTime
    /\ IF Len(lines) = 0
       THEN UNCHANGED currentLineIndex
       ELSE currentLineIndex' = findCurrentLineIndex(lines, currentTime)
    /\ IF Len(lines) > 0 /\ currentTime > lines[Len(lines)].time
       THEN currentIndex' = nextIndex(currentIndex, Len(playlist))
       ELSE UNCHANGED currentIndex
    /\ UNCHANGED <<currentTime, lines, noLyric, songSeen>>
    /\ UNCHANGED <<playlist, isPlaying, audioSrc, fileCache, db, writes,
                   writeFailed, rejected, loadState, loadSnap, calls, nextId,
                   playPending>>

\* The time watcher runs (after the song watcher, which was created first)
TimeWatch ==
    /\ songKey(playlist, currentIndex) = songSeen
    /\ UNCHANGED parserVars
    /\ currentTime # timeSeen
    /\ timeSeen' = currentTime
    /\ IF Len(lines) = 0
       THEN UNCHANGED currentLineIndex
       ELSE currentLineIndex' = findCurrentLineIndex(lines, currentTime)
    /\ UNCHANGED <<currentTime, lines, noLyric, songSeen>>
    /\ UNCHANGED playerVars

\* The 'timeupdate' event of the audio element
TimeUpdate(time) ==
    /\ Flushed
    /\ UNCHANGED parserVars
    /\ audioSrc # NoSrc
    /\ currentTime' = time
    /\ UNCHANGED <<lines, currentLineIndex, noLyric, songSeen, timeSeen>>
    /\ UNCHANGED playerVars

\* seek(time) of the player store
Seek(time) ==
    /\ Flushed
    /\ UNCHANGED parserVars
    /\ currentTime' = time
    /\ UNCHANGED <<lines, currentLineIndex, noLyric, songSeen, timeSeen>>
    /\ UNCHANGED playerVars

\* seekToLine without the range check: an index past the end is taken as the
\* last line
SeekToLineClamp(index) ==
    /\ Flushed
    /\ UNCHANGED parserVars
    /\ UNCHANGED <<lines, currentLineIndex, noLyric, songSeen, timeSeen>>
    /\ UNCHANGED <<playlist, currentIndex, audioSrc, fileCache, db, writes,
                   writeFailed, rejected, loadState, loadSnap, calls, nextId>>
    /\ IF index < 0 \/ Len(lines) = 0
       THEN UNCHANGED <<currentTime, isPlaying, playPending>>
       ELSE /\ currentTime' =
                   lines[IF index >= Len(lines) THEN Len(lines) ELSE index + 1].time
            /\ IF ~isPlaying /\ currentSongExists
               THEN play
               ELSE UNCHANGED <<isPlaying, playPending>>

\* seekToLine that only moves the playback position
SeekToLineNoPlay(index) ==
    /\ Flushed
    /\ UNCHANGED parserVars
    /\ UNCHANGED <<lines, currentLineIndex, noLyric, songSeen, timeSeen>>
    /\ UNCHANGED playerVars
    /\ IF index < 0 \/ index >= Len(lines)
       THEN UNCHANGED currentTime
       ELSE currentTime' = lines[index + 1].time

\* seekToLine(index) of the lyric store
SeekToLine(index) ==
    /\ Flushed
    /\ UNCHANGED parserVars
    /\ UNCHANGED <<lines, currentLineIndex, noLyric, songSeen, timeSeen>>
    /\ UNCHANGED <<playlist, currentIndex, audioSrc, fileCache, db, writes,
                   writeFailed, rejected, loadState, loadSnap, calls, nextId>>
    /\ IF index < 0 \/ index >= Len(lines)
       THEN UNCHANGED <<currentTime, isPlaying, playPending>>
       ELSE /\ currentTime' = lines[index + 1].time
            /\ IF ~isPlaying /\ currentSongExists
               THEN play
               ELSE UNCHANGED <<isPlaying, playPending>>

\* ------------------------------------------------- store/lyricStore.ts
\* The callback of each song watcher of src/store/lyricStore.ts: the reset,
\* then the parsed lines for a lyric that is not blank, and noLyric for a
\* lyric that is absent, empty or blank
songWatcherOriginal(st, newVal) ==
    LET reset == [st EXCEPT !.lines = <<>>, !.currentLineIndex = -1, !.noLyric = FALSE]
    IN  IF newVal = <<>> THEN reset
        ELSE IF newVal[1].lyric \notin {Undefined, ""} /\ trim(newVal[1].lyric) # ""
             THEN [reset EXCEPT !.lines = parseLrc(newVal[1].lyric), !.noLyric = FALSE]
             ELSE [reset EXCEPT !.noLyric = TRUE]

\* The song watchers of src/store/lyricStore.ts run: the one on the id and
\* lyric of currentSong, and after it the one on currentSong itself when
\* the song object is another one
SongWatchOriginal ==
    /\ songKey(playlist, currentIndex) # songSeen
    /\ UNCHANGED parserVars
    /\ songSeen' = songKey(playlist, currentIndex)
    /\ \E another \in BOOLEAN :
          LET first == songWatcherOriginal(lyricState, songKey(playlist, currentIndex))
              st == IF another
                    THEN songWatcherOriginal(first, songKey(playlist, currentIndex))
                    ELSE first
          IN  /\ lines' = st.lines
              /\ currentLineIndex' = st.currentLineIndex
              /\ noLyric' = st.noLyric
    /\ UNCHANGED <<currentTime, timeSeen>>
    /\ UNCHANGED playerVars

\* The time watcher of src/store/lyricStore.ts runs
TimeWatchOriginal ==
    /\ songKey(playlist, currentIndex) = songSeen
    /\ UNCHANGED parserVars
    /\ currentTime # timeSeen
    /\ timeSeen' = currentTime
    /\ IF Len(lines) = 0
       THEN UNCHANGED currentLineIndex
       ELSE LET later == {k \in 1..Len(lines) : lines[k].time > currentTime}
                index == IF later = {} THEN -1
                         ELSE (CHOOSE k \in later : \A j \in later : k <= j) - 1
            IN  currentLineIndex' = IF index = -1 THEN Len(lines) - 1
                                    ELSE IF index > 0 THEN index - 1
                                    ELSE 0
    /\ UNCHANGED <<currentTime, lines, noLyric, songSeen>>
    /\ UNCHANGED playerVars

\* seekToLine(index) of src/store/lyricStore.ts: nothing when lines[index]
\* is undefined
SeekToLineOriginal(index) ==
    /\ Flushed
    /\ UNCHANGED parserVars
    /\ UNCHANGED <<lines, currentLineIndex, noLyric, songSeen, timeSeen>>
    /\ UNCHANGED <<playlist, currentIndex, audioSrc, fileCache, db, writes,
                   writeFailed, rejected, loadState, loadSnap, calls, nextId>>
    /\ IF index + 1 \notin DOMAIN lines
       THEN UNCHANGED <<currentTime, isPlaying, playPending>>
       ELSE /\ currentTime' = lines[index + 1].time
            /\ IF ~isPlaying /\ currentSongExists
               THEN play
               ELSE UNCHANGED <<isPlaying, playPending>>

\* ---------------------------------------------------------------- parser
\* parseLrc on a text given as the sequence of its characters, with times
\* counted in milliseconds (the lyric store above takes the lines of its few
\* texts from matchLines and counts whole seconds)
NL == "\n"
Digits == {"0", "1", "2", "3", "4", "5", "6", "7", "8", "9"}
WhiteSpace == {" ", "\t", "\r", NL}

\* The value of a decimal digit, as parseInt and parseFloat read it
digitValue(c) ==
    CASE c = "0" -> 0 [] c = "1" -> 1 [] c = "2" -> 2 [] c = "3" -> 3
      [] c = "4" -> 4 [] c = "5" -> 5 [] c = "6" -> 6 [] c = "7" -> 7
      [] c = "8" -> 8 [] c = "9" -> 9

\* lrc.split('\n')
RECURSIVE split(_)
split(text) ==
    IF \A k \in 1..Len(text) : text[k] # NL THEN <<text>>
    ELSE LET k == CHOOSE j \in 1..Len(text) :
                     text[j] = NL /\ \A i \in 1..(j - 1) : text[i] # NL
         IN  <<SubSeq(text, 1, k - 1)>> \o split(SubSeq(text, k + 1, Len(text)))

\* A timeReg that takes two digits after the point and no more
timeRegAtHundredths(line, p) ==
    LET at(k) == IF p + k <= Len(line) THEN line[p + k] ELSE ""
    IN  IF ~(/\ at(0) = "[" /\ at(1) \in Digits /\ at(2) \in Digits
             /\ at(3) = ":" /\ at(4) \in Digits /\ at(5) \in Digits)
        THEN 0
        ELSE IF /\ at(6) = "." /\ at(7) \in Digits /\ at(8) \in Digits
                /\ at(9) = "]"
        THEN 10
        ELSE IF at(6) = "]" THEN 7 ELSE 0

\* timeReg = /\[(\d{2}):(\d{2})(\.\d{2,3})?\]/ tried at position p of the
\* line: the length of the match, 0 when there is none
timeRegAt(line, p) ==
    LET at(k) == IF p + k <= Len(line) THEN line[p + k] ELSE ""
    IN  IF ~(/\ at(0) = "[" /\ at(1) \in Digits /\ at(2) \in Digits
             /\ at(3) = ":" /\ at(4) \in Digits /\ at(5) \in Digits)
        THEN 0
        ELSE IF /\ at(6) = "." /\ at(7) \in Digits /\ at(8) \in Digits
                /\ at(9) \in Digits /\ at(10) = "]"
        THEN 11
        ELSE IF /\ at(6) = "." /\ at(7) \in Digits /\ at(8) \in Digits
                /\ at(9) = "]"
        THEN 10
        ELSE IF at(6) = "]" THEN 7 ELSE 0

\* An exec that returns the last match of the line
timeRegExecLast(line) ==
    LET ps == {p \in 1..Len(line) : timeRegAt(line, p) > 0}
    IN  IF ps = {} THEN 0 ELSE CHOOSE p \in ps : \A q \in ps : q <= p

\* timeReg.exec(line): the position of the first match, 0 for null
timeRegExec(line) ==
    LET ps == {p \in 1..Len(line) : timeRegAt(line, p) > 0}
    IN  IF ps = {} THEN 0 ELSE CHOOSE p \in ps : \A q \in ps : p <= q

\* min * 60 + sec of the match at p, in milliseconds: parseInt of the two
\* minute digits, parseFloat of the two second digits with the fraction
timeOfMatch(line, p) ==
    LET d(k) == digitValue(line[p + k])
        min == 10 * d(1) + d(2)
        whole == 10 * d(4) + d(5)
        fraction == IF timeRegAt(line, p) = 11
                    THEN 100 * d(7) + 10 * d(8) + d(9)
                    ELSE IF timeRegAt(line, p) = 10
                    THEN 100 * d(7) + 10 * d(8)
                    ELSE 0
    IN  min * 60000 + whole * 1000 + fraction

\* String.prototype.trim on a sequence of characters
RECURSIVE trimStart(_)
trimStart(s) ==
    IF s # <<>> /\ Head(s) \in WhiteSpace THEN trimStart(Tail(s)) ELSE s
RECURSIVE trimEnd(_)
trimEnd(s) ==
    IF s # <<>> /\ s[Len(s)] \in WhiteSpace
    THEN trimEnd(SubSeq(s, 1, Len(s) - 1)) ELSE s
trimText(s) == trimEnd(trimStart(s))

\* line.replace(timeReg, '').trim() for the match at p
textOfMatch(line, p) ==
    trimText(SubSeq(line, 1, p - 1)
             \o SubSeq(line, p + timeRegAt(line, p), Len(line)))

\* parseLrc(lrc) on the characters of lrc
parseLrcText(text) ==
    LET matched == SelectSeq(split(text),
                             LAMBDA l : /\ timeRegExec(l) > 0
                                        /\ textOfMatch(l, timeRegExec(l)) # <<>>)
    IN  sortByTime([k \in 1..Len(matched) |->
                       [time |-> timeOfMatch(matched[k], timeRegExec(matched[k])),
                        text |-> textOfMatch(matched[k], timeRegExec(matched[k]))]])

\* The lines the texts handed to parseLrc are made of
TaggedA == <<"[", "0", "0", ":", "0", "1", ".", "0", "0", "]", "a">>  \* '[00:01.00]a'
Untagged == <<"a">>  \* 'a'
TagAlone == <<"[", "0", "0", ":", "0", "2", "]">>  \* '[00:02]'
TagAndBlanks == <<"[", "0", "0", ":", "0", "3", "]", " ", " ">>  \* '[00:03]  '
OneFractionDigit == <<"[", "0", "0", ":", "0", "2", ".", "5", "]", "b">>  \* '[00:02.5]b'
OneMinuteDigit == <<"[", "1", ":", "0", "2", "]", "c">>  \* '[1:02]c'
TagInside == <<"x", "[", "0", "0", ":", "0", "4", ".", "1", "2", "3", "]", "y">>  \* 'x[00:04.123]y'
TwoTags == <<"[", "0", "0", ":", "0", "5", "]", "[", "0", "0", ":", "0", "1", "]", "z">>  \* '[00:05][00:01]z'
PaddedD == <<"[", "0", "1", ":", "0", "0", ".", "5", "0", "]", " ", "d", " ">>  \* '[01:00.50] d '
EmptyLine == <<>>  \* ''
BlankLine == <<" ", " ">>  \* '  '
Seconds61 == <<"[", "0", "0", ":", "6", "1", "]", "e">>  \* '[00:61]e'
FourFractionDigits == <<"[", "0", "0", ":", "0", "1", ".", "1", "2", "3", "4", "]", "f">>  \* '[00:01.1234]f'
ThreeMinuteDigits == <<"[", "1", "0", "0", ":", "0", "0", "]", "g">>  \* '[100:00]g'
CarriageReturn == <<"[", "0", "0", ":", "0", "6", "]", "h", "\r">>  \* '[00:06]h\r'

ParserLines == {
    TaggedA, Untagged, TagAlone, TagAndBlanks,
    OneFractionDigit, OneMinuteDigit, TagInside, TwoTags,
    PaddedD, EmptyLine, BlankLine, Seconds61,
    FourFractionDigits, ThreeMinuteDigits, CarriageReturn}

\* Lines joined by line feeds
RECURSIVE joinLines(_)
joinLines(ls) ==
    IF Len(ls) = 0 THEN <<>>
    ELSE IF Len(ls) = 1 THEN ls[1]
    ELSE ls[1] \o <<NL>> \o joinLines(Tail(ls))

\* The texts handed to parseLrc: up to MaxLines of the lines above
ParserTexts ==
    {joinLines(ls) : ls \in UNION {[1..n -> ParserLines] : n \in 1..MaxLines}}

\* A pair written as the line [mm:ss.fff]text, the time in milliseconds
digitChar(n) ==
    CASE n = 0 -> "0" [] n = 1 -> "1" [] n = 2 -> "2" [] n = 3 -> "3"
      [] n = 4 -> "4" [] n = 5 -> "5" [] n = 6 -> "6" [] n = 7 -> "7"
      [] n = 8 -> "8" [] n = 9 -> "9"
RECURSIVE decimal(_)
decimal(n) ==
    IF n < 10 THEN <<digitChar(n)>>
    ELSE decimal(n \div 10) \o <<digitChar(n % 10)>>
RECURSIVE padStart(_, _)
padStart(s, width) == IF Len(s) >= width THEN s ELSE padStart(<<"0">> \o s, width)
writeLine(pair) ==
    <<"[">> \o padStart(decimal(pair.time \div 60000), 2)
        \o <<":">> \o padStart(decimal((pair.time \div 1000) % 60), 2)
        \o <<".">> \o padStart(decimal(pair.time % 1000), 3)
        \o <<"]">> \o pair.text
writeLrc(pairs) == joinLines([k \in 1..Len(pairs) |-> writeLine(pairs[k])])

\* The pairs written: times of 0 s, 1.5 s, one millisecond short of 100
\* minutes and 100 minutes; the texts 'a', 'b c', '' and ' a'
PairTimes == {0, 1500, 5999999, 6000000}
PairTexts == {<<"a">>, <<"b", " ", "c">>, <<>>, <<" ", "a">>}
Pairs == [time : PairTimes, text : PairTexts]
PairSeqs ==
    {ps \in UNION {[1..n -> Pairs] : n \in 0..MaxPairs} :
        \A j, k \in 1..Len(ps) : j # k => ps[j].time # ps[k].time}

\* A call parseLrc(text).  The result depends on the argument only, so one
\* call is followed from the initial state.
ParseLrc(text, pairs) ==
    /\ lrcText = <<>>
    /\ lrcPairs = <<>>
    /\ lrcPairs' = pairs
    /\ lrcText' = text
    /\ parsed' = parseLrcText(text)
    /\ UNCHANGED <<currentTime, lines, currentLineIndex, noLyric, songSeen, timeSeen>>
    /\ UNCHANGED playerVars

\* ---------------------------------------------------------------- Next
\* The indices handed to the operations: every valid one, and one invalid
\* on each side
Indices == -1..Len(playlist)

AddFilesAny == \E files \in Batches : AddFiles(files)
AddFilesPlain == AddFiles(<< <<"a", "mp3">> >>)
AddFilesPaired ==
    \E files \in {<< <<"a", "mp3">> >>, << <<"a", "lrc">>, <<"a", "mp3">> >>} :
        AddFiles(files)
ReadLyricAny ==
    \E c \in 1..Len(calls) : \E k \in 1..Len(calls[c]), ok \in BOOLEAN : ReadLyric(c, k, ok)
PlayIndexAny == \E index \in Indices : PlayIndex(index)
TogglePlayAny == \E force \in {"none", "play", "pause"} : TogglePlay(force)
PlaySettleAny ==
    \E outcome \in {"ok", "abort", "error"}, more \in BOOLEAN : PlaySettle(outcome, more)
RemoveSongAny == \E index \in Indices : RemoveSong(index)
UpdateLyricAny ==
    \E index \in Indices, lyricContent \in LyricInputs : UpdateLyric(index, lyricContent)

\* The store with the operations that move the current index and the engine
\* binding; imports are of one plain audio file, lyrics are not edited and
\* the storage does not fail
NextIndex ==
    \/ AddFilesPlain
    \/ LoadComplete
    \/ WriteComplete
    \/ PlayIndexAny
    \/ NextSong
    \/ Ended
    \/ TogglePlayAny
    \/ PlaySettleAny
    \/ RemoveSongAny

SpecIndex == Init /\ [][NextIndex]_vars

\* The store with the operations that change the playlist, the file cache
\* and the storage; imports are of one audio file, alone or with its lyric
\* file, the playback controls are not used and the storage does not fail
NextPersist ==
    \/ AddFilesPaired
    \/ ReadLyricAny
    \/ LoadComplete
    \/ WriteComplete
    \/ RemoveSongAny
    \/ UpdateLyricAny

SpecPersist == Init /\ [][NextPersist]_vars

\* The store with the imports of every batch and the removals
NextImport ==
    \/ AddFilesAny
    \/ ReadLyricAny
    \/ LoadComplete
    \/ WriteComplete
    \/ RemoveSongAny

SpecImport == Init /\ [][NextImport]_vars

\* The store playing through its list: imports of one plain audio file, the
\* initial load, playIndex, nextSong and the end-of-track event
AddFilesLoop == AddFilesUpTo(<< <<"a", "mp3">> >>, MaxLoopNew)

NextLoop ==
    \/ AddFilesLoop
    \/ LoadComplete
    \/ WriteComplete
    \/ PlayIndexAny
    \/ NextSong
    \/ Ended

SpecLoop == Init /\ [][NextLoop]_vars

\* The same store with the audio element's guarantee: a track that keeps
\* playing reaches its end, so the 'ended' event is delivered
SpecLoopFair == SpecLoop /\ WF_vars(Ended)

\* The store importing batches with several lyric files, with the initial
\* load, the storage writes and the removals
AddFilesLyrics == \E files \in LyricBatches : AddFiles(files)

NextBatch ==
    \/ AddFilesLyrics
    \/ ReadLyricAny
    \/ LoadComplete
    \/ WriteComplete
    \/ RemoveSongAny

SpecBatch == Init /\ [][NextBatch]_vars

\* The lyric store following the player store: the initial load, playIndex,
\* removeSong, updateLyric, time events, seek and seekToLine, each followed
\* by the watchers it triggers; a storage write settles before the next
\* change of the playlist
UpdateLyricText ==
    \E index \in Indices, lyricContent \in LyricTexts : UpdateLyric(index, lyricContent)
TimeUpdateAny == \E time \in Times : TimeUpdate(time)
SeekAny == \E time \in Times : Seek(time)
SeekToLineAny == \E index \in -1..Len(lines) : SeekToLine(index)

NextLyric ==
    \/ Flushed /\ LoadComplete
    \/ Flushed /\ WriteComplete
    \/ Flushed /\ PlayIndexAny
    \/ Settled /\ RemoveSongAny
    \/ Settled /\ UpdateLyricText
    \/ TimeUpdateAny
    \/ SeekAny
    \/ SeekToLineAny
    \/ SongWatch
    \/ TimeWatch

SpecLyric == Init /\ [][NextLyric]_vars

\* The store with every operation of the two stores, the watchers included,
\* and a storage that does not fail; imports are of one plain audio file, a
\* storage write settles before the next change of the playlist, and the
\* playback controls and the seeks are used once the initial load is done
\* and no write is in flight
AddFilesQuiet == AddFilesUpTo(<< <<"a", "mp3">> >>, MaxWritesNew)

NextWrites ==
    \/ Settled /\ AddFilesQuiet
    \/ Flushed /\ LoadComplete
    \/ Flushed /\ WriteComplete
    \/ Settled /\ RemoveSongAny
    \/ Settled /\ UpdateLyricAny
    \/ Quiet /\ PlayIndexAny
    \/ Quiet /\ NextSong
    \/ Quiet /\ TogglePlayAny
    \/ Quiet /\ SeekAny
    \/ Quiet /\ SeekToLineAny
    \/ SongWatch
    \/ TimeWatch

SpecWrites == Init /\ [][NextWrites]_vars

\* The store with a storage that may fail: the initial read may be rejected
\* or return a record without its file, and a write may be rejected; imports
\* are of one plain audio file
LoadBadRecordAny == \E k \in 1..Len(loadSnap) : LoadBadRecord(k)

NextFaults ==
    \/ AddFilesPlain
    \/ LoadComplete
    \/ LoadFail
    \/ LoadBadRecordAny
    \/ WriteComplete
    \/ WriteFail
    \/ RemoveSongAny
    \/ UpdateLyricAny

SpecFaults == Init /\ [][NextFaults]_vars

\* parseLrc called on a text, or on pairs written as a text
ParseText == \E text \in ParserTexts : ParseLrc(text, <<>>)
ParseWritten == \E pairs \in PairSeqs : ParseLrc(writeLrc(pairs), pairs)

NextParser ==
    \/ ParseText
    \/ ParseWritten

SpecParser == Init /\ [][NextParser]_vars

\* ---------------------------------------------------------------- claims
Last(seq) == seq[Len(seq)]
ValidIndices == 0..(Len(playlist) - 1)
\* The id of song ci of pl, 0 (the id of no song) when ci selects no song
IdAt(pl, ci) == IF ci >= 0 /\ ci < Len(pl) THEN pl[ci + 1].id ELSE 0
NameCount(pl, name) == Cardinality({k \in 1..Len(pl) : pl[k].name = name})

\* C1: in every reachable state -1 <= currentIndex < playlist.length.
C1_IndexInRange == -1 <= currentIndex /\ currentIndex < Len(playlist)

\* The store is as usePlayerStore left it: nothing has run but the pending load
Fresh ==
    /\ loadState = "pending"
    /\ playlist = <<>> /\ currentIndex = -1 /\ ~isPlaying /\ audioSrc = NoSrc
    /\ fileCache = <<>> /\ calls = <<>> /\ writes = <<>> /\ ~playPending
    /\ nextId = Len(loadSnap) + 1

\* The stored snapshot was saved with every song of the playlist cached
SavedWhole == \A k \in 1..Len(db.src) : db.src[k].id \in DOMAIN db.cacheAt

\* The playlist and the file cache after the load are those the snapshot was
\* saved from: same songs in the same order with the same id, name and lyric,
\* every duration 0, every binary cached under its id, and nothing playing
Restored ==
    /\ Len(playlist') = Len(db.src)
    /\ \A k \in 1..Len(db.src) :
          /\ playlist'[k].id = db.src[k].id
          /\ playlist'[k].name = db.src[k].name
          /\ playlist'[k].lyric = db.src[k].lyric
          /\ playlist'[k].duration = 0
          /\ db.src[k].id \in DOMAIN fileCache'
          /\ fileCache'[db.src[k].id] = db.cacheAt[db.src[k].id]
    /\ ~isPlaying'

\* C2 (as stated): a fresh store that loads a snapshot saved with every song
\* cached restores the saved songs, and currentIndex is 0.
C2_RoundTripIndexZero ==
    [][(Fresh /\ SavedWhole /\ LoadComplete) => (Restored /\ currentIndex' = 0)]_vars

\* C2 (amended): a fresh store that loads a snapshot saved with every song
\* cached restores the saved songs; currentIndex is 0 when the saved
\* playlist is non-empty and stays -1 when it is empty.
C2_RoundTrip ==
    [][(Fresh /\ SavedWhole /\ LoadComplete) =>
         (Restored /\ currentIndex' = IF Len(db.src) > 0 THEN 0 ELSE -1)]_vars

C2_Witness ==
    /\ loadState = "done" /\ nextId = Len(loadSnap) + 1 /\ calls = <<>> /\ writes = <<>>
    /\ db.by.op = "previous"
    /\ Len(playlist) = 2 /\ Len(db.src) = 2
    /\ \A k \in 1..2 : playlist[k].id = db.src[k].id /\ playlist[k].lyric = db.src[k].lyric
    /\ currentIndex = 0 /\ ~isPlaying

\* C3: the snapshot an operation writes is computed on the file cache the
\* operation leaves, and holds a record only for songs whose id is in it.
C3_SnapshotOnlyCached ==
    [][Len(writes') = Len(writes) + 1 =>
         /\ Last(writes').cacheAt = fileCache'
         /\ \A k \in 1..Len(Last(writes').data) :
               Last(writes').data[k].id \in DOMAIN fileCache']_vars

C3_Witness ==
    /\ writes # <<>>
    /\ Last(writes).by.op = "removeSong"
    /\ Last(writes).cacheAt = fileCache
    /\ Last(writes).src = playlist
    /\ Len(Last(writes).data) > 0
    /\ calls # <<>>

\* The records of the songs of pl whose binary is in fc, in playlist order
RecordsOf(pl, fc) ==
    LET cached == SelectSeq(pl, LAMBDA song : song.id \in DOMAIN fc)
    IN  [k \in 1..Len(cached) |->
            [id |-> cached[k].id, name |-> cached[k].name,
             file |-> fc[cached[k].id], lyric |-> cached[k].lyric]]

\* C4: once no operation and no write is in flight, the stored snapshot is
\* the list of records of the cached playlist songs, in playlist order.
C4_StoredIsPlaylist ==
    (loadState = "done" /\ calls = <<>> /\ writes = <<>> /\ ~writeFailed)
        => db.data = RecordsOf(playlist, fileCache)

\* C5: addFiles rejects an audio file whose display name is the name of a
\* song of the playlist: the playlist keeps exactly one song of that name
\* and the file cache gets no entry for the file.
C5_DuplicateRejected ==
    [][\A f \in {<<"a", "mp3">>} :
         (NameCount(playlist, getBaseName(f)) = 1 /\ AddFiles(<<f>>)) =>
            /\ NameCount(playlist', getBaseName(f)) = 1
            /\ fileCache' = fileCache]_vars

\* C6: no two songs of the playlist have the same display name.
C6_UniqueNames ==
    \A j, k \in 1..Len(playlist) : j # k => playlist[j].name # playlist[k].name

\* C7: removeSong(i) with a valid i other than currentIndex decrements the
\* index when i < currentIndex, leaves it when i > currentIndex, and keeps
\* the current song, isPlaying and the engine binding.
C7_RemoveOtherKeepsCurrent ==
    [][\A i \in ValidIndices :
         (i # currentIndex /\ RemoveSong(i)) =>
            /\ currentIndex' = IF i < currentIndex THEN currentIndex - 1 ELSE currentIndex
            /\ IdAt(playlist', currentIndex') = IdAt(playlist, currentIndex)
            /\ isPlaying' = isPlaying
            /\ audioSrc' = audioSrc]_vars

C10_NextSongModulo ==
    [][((NextSong \/ Ended) /\ Len(playlist) > 0) =>
         /\ currentIndex' = (currentIndex + 1) % Len(playlist)
         /\ audioSrc' = playlist[currentIndex' + 1].url
         /\ isPlaying']_vars

\* The files of a pending call that were not rejected, in input order
acceptedFiles(call) ==
    LET kept == SelectSeq(call, LAMBDA slot : slot.st # "null")
    IN  [j \in 1..Len(kept) |-> kept[j].file]

\* C11: addFiles changes the playlist by one append after every lyric read
\* of the batch has settled: no song of a call still reading is in the
\* playlist, a read that is not the last of its call leaves the playlist
\* alone, and the last one appends the accepted songs in the order of the
\* audio files of the input, whatever the order the reads settled in.
C11_SingleAppend ==
    /\ [](\A c \in 1..Len(calls) : \A k \in 1..Len(calls[c]) :
             calls[c][k].st = "song" =>
                \A j \in 1..Len(playlist) : playlist[j].id # calls[c][k].song[1].id)
    /\ [][\A c \in 1..Len(calls) : \A k \in 1..Len(calls[c]) : \A ok \in BOOLEAN :
            ReadLyric(c, k, ok) =>
               IF readingOf(calls[c]) = {k}
               THEN LET files == acceptedFiles(calls[c])
                    IN  /\ Len(playlist') = Len(playlist) + Len(files)
                        /\ SubSeq(playlist', 1, Len(playlist)) = playlist
                        /\ \A j \in 1..Len(files) :
                              playlist'[Len(playlist) + j].name = getBaseName(files[j])
               ELSE playlist' = playlist]_vars

\* The songs of b.mp3 and c.mp3 were appended in input order although the
\* lyric of c was read first
C11_Witness ==
    \E j \in 1..(Len(playlist) - 1) :
        /\ playlist[j].name = <<"b">> /\ playlist[j + 1].name = <<"c">>
        /\ playlist[j].id > playlist[j + 1].id

\* C12: a song appended by addFiles (one created in this session) stays in
\* the playlist through every step that is not removeSong on its index, the
\* completion of the initial load included.
C12_ImportedSongStays ==
    [][\A k \in 1..Len(playlist) :
         (playlist[k].id > Len(loadSnap) /\ ~RemoveSong(k - 1)) =>
            \E j \in 1..Len(playlist') : playlist'[j].id = playlist[k].id]_vars

\* The step issued one write, of the snapshot of the playlist and the file
\* cache it leaves
IssuedOne ==
    /\ Len(writes') = Len(writes) + 1
    /\ SubSeq(writes', 1, Len(writes)) = writes
    /\ Last(writes').src = playlist'
    /\ Last(writes').data = RecordsOf(playlist', fileCache')

\* C13: an addFiles that appends, a removeSong on a valid index and an
\* updateLyric on a valid index each issue exactly one storage write, of the
\* snapshot taken after the change; playIndex, nextSong, togglePlay, seek,
\* seekToLine, the initial load and the calls that change nothing issue none.
C13_OneWritePerMutation ==
    [][/\ AddFilesQuiet =>
            IF Len(playlist') > Len(playlist) THEN IssuedOne ELSE writes' = writes
       /\ \A index \in Indices :
            RemoveSong(index) =>
                IF index \in ValidIndices THEN IssuedOne ELSE writes' = writes
       /\ \A index \in Indices : \A lyricContent \in LyricInputs :
            UpdateLyric(index, lyricContent) =>
                IF index \in ValidIndices THEN IssuedOne ELSE writes' = writes
       /\ (PlayIndexAny \/ NextSong \/ TogglePlayAny \/ SeekAny \/ SeekToLineAny
             \/ LoadComplete) => writes' = writes]_vars

\* A write of updateLyric is in flight, taken on the playlist as it is now,
\* while a song plays with its lyric shown
C13_Witness ==
    /\ writes # <<>>
    /\ Last(writes).by.op = "updateLyric"
    /\ Last(writes).src = playlist
    /\ Len(Last(writes).data) > 0
    /\ isPlaying
    /\ lines # <<>>

\* C14: when the initial load of a fresh store fails, in the storage read
\* or in the reconstruction of a record, the store is left with an empty
\* playlist, currentIndex -1, nothing playing, nothing bound to the engine
\* and no file-cache entry added.
C14_FailedLoadLeavesEmpty ==
    [][(Fresh /\ (LoadFail \/ LoadBadRecordAny)) =>
         /\ playlist' = <<>>
         /\ currentIndex' = -1
         /\ ~isPlaying'
         /\ audioSrc' = NoSrc
         /\ fileCache' = fileCache]_vars

\* C15: no rejection of a storage write is returned to the caller of
\* addFiles, removeSong or updateLyric or left unhandled, and a failed write
\* leaves the playlist and its lyrics as they are.
C15_WriteFailureContained ==
    /\ [](rejected = {})
    /\ [][WriteFail => playlist' = playlist]_vars

\* C16 (as stated): when the start request of play() is rejected with
\* AbortError isPlaying is left as it is, when it is rejected with another
\* error isPlaying is false, and when it is fulfilled isPlaying is true.
C16_PlayOutcome ==
    [][\A more \in BOOLEAN :
         /\ PlaySettle("abort", more) => isPlaying' = isPlaying
         /\ PlaySettle("error", more) => ~isPlaying'
         /\ PlaySettle("ok", more) => isPlaying']_vars

\* C16 (amended): play() sets isPlaying when it is called; when its start
\* request is fulfilled or rejected with AbortError isPlaying is left as it
\* is (false if pause() or a failed request came in between), and when it
\* is rejected with another error isPlaying is false.
C16_PlayOutcomeKept ==
    [][/\ \A more \in BOOLEAN :
            /\ (PlaySettle("abort", more) \/ PlaySettle("ok", more)) =>
                   isPlaying' = isPlaying
            /\ PlaySettle("error", more) => ~isPlaying'
       /\ (currentSongExists /\ TogglePlay("play")) => isPlaying'
       /\ \A index \in ValidIndices : PlayIndex(index) => isPlaying']_vars

\* Every start request has settled and the store is playing a song other
\* than the first
C16_Witness ==
    /\ isPlaying
    /\ ~playPending
    /\ currentIndex > 0
    /\ currentSongExists
    /\ audioSrc = playlist[currentIndex + 1].url

\* The lines are in the order of their times
SortedByTime(ls) == \A j, k \in 1..Len(ls) : j < k => ls[j].time <= ls[k].time
\* The times of the lines
TimesOf(ls) == [k \in 1..Len(ls) |-> ls[k].time]

\* C17: on a time change with a non-empty list of lines sorted by time, the
\* active index becomes max(0, k - 1), k being the number of lines whose
\* time is <= the playback time; with lines at 5, 10 and 15 it is 0 at
\* time 0, 1 at time 12 and 2 at time 999.
C17_ActiveLine ==
    [][(TimeWatch /\ Len(lines) > 0 /\ SortedByTime(lines)) =>
         LET k == Cardinality({j \in 1..Len(lines) : lines[j].time <= currentTime})
         IN  /\ currentLineIndex' = IF k = 0 THEN 0 ELSE k - 1
             /\ TimesOf(lines) = <<5, 10, 15>> =>
                   /\ currentTime = 0 => currentLineIndex' = 0
                   /\ currentTime = 12 => currentLineIndex' = 1
                   /\ currentTime = 999 => currentLineIndex' = 2]_vars

\* The time watcher has run at time 12 on the lines at 5, 10 and 15
C17_Witness ==
    /\ TimesOf(lines) = <<5, 10, 15>>
    /\ currentTime = 12
    /\ timeSeen = 12
    /\ currentLineIndex = 1

\* C18: when the song watcher runs on a current song whose lyric is
\* undefined, empty, blank or text from which no line is extracted, the
\* lyric store ends with noLyric true and no line; when lines are extracted,
\* noLyric is false and lines holds them, in time order.
C18_NoLyricFlag ==
    [][(SongWatch /\ songKey(playlist, currentIndex) # <<>>) =>
         LET lyric == songKey(playlist, currentIndex)[1].lyric
         IN  /\ lyric \in {Undefined, "", Blank, NoTag, TagOnly} =>
                   noLyric' /\ lines' = <<>>
             /\ lyric = ThreeLines =>
                   /\ ~noLyric'
                   /\ lines' = << [time |-> 5, text |-> "a"],
                                  [time |-> 10, text |-> "b"],
                                  [time |-> 15, text |-> "c"] >>
             /\ lyric = "[00:01]x" =>
                   ~noLyric' /\ lines' = << [time |-> 1, text |-> "x"] >>
             /\ lyric = "[00:02]y" =>
                   ~noLyric' /\ lines' = << [time |-> 2, text |-> "y"] >>
             /\ noLyric' <=> lines' = <<>>]_vars

\* The song watcher has run on a current song whose lyric has no time tag
C18_Witness ==
    /\ Flushed
    /\ songSeen # <<>>
    /\ songSeen[1].lyric = NoTag
    /\ noLyric
    /\ lines = <<>>

C20_ActiveIndexInRange ==
    IF lines = <<>> THEN currentLineIndex = -1
    ELSE -1 <= currentLineIndex /\ currentLineIndex < Len(lines)

\* The song or its lyric changed after the last time change: at time 999
\* the lines of the present lyric are shown with no active line
C20_Witness ==
    /\ Flushed
    /\ currentTime = 999
    /\ Len(lines) = 1
    /\ currentLineIndex = -1

C22_SeekToLineInRange ==
    [][\A index \in 0..(Len(lines) - 1) :
          SeekToLine(index)
              => /\ currentTime' = lines[index + 1].time
                 /\ isPlaying'
                 /\ IF isPlaying THEN playPending' = playPending
                    ELSE playPending']_vars

\* seekToLine(1) on the three lines moved to 10 s, a time only a line gives,
\* and started playback; the time watcher has not run yet
C22_Witness ==
    /\ Len(lines) = 3
    /\ currentTime = 10
    /\ timeSeen # 10
    /\ isPlaying
    /\ playPending

\* C23: the song watcher, the time watcher and seekToLine leave the
\* playlist, the current index, the file cache and durable storage (with the
\* writes in flight) as they are.
C23_LyricStoreFrame ==
    [][(SongWatch \/ TimeWatch \/ SeekToLineAny)
          => UNCHANGED <<playlist, currentIndex, fileCache, db, writes>>]_vars

\* seekToLine(2) moved to 15 s, a time only a line gives, and the time
\* watcher made the third line active, past which no line lies
C23_Witness ==
    /\ Flushed
    /\ currentTime = 15
    /\ currentLineIndex = 2
    /\ Len(lines) = 3
    /\ playlist # <<>>

\* The elements of a sequence
Elements(s) == {s[k] : k \in 1..Len(s)}
\* The parser returned exactly the pairs, sorted ascending by time
ReturnsPairsSorted ==
    /\ Len(parsed) = Len(lrcPairs)
    /\ Elements(parsed) = Elements(lrcPairs)
    /\ SortedByTime(parsed)
\* A pair the line format can carry: a time below 100 minutes and a text on
\* one line that is not empty and has no white space at either end
Writable(pair) ==
    /\ pair.time < 100 * 60000
    /\ pair.text # <<>>
    /\ trimText(pair.text) = pair.text
    /\ \A k \in 1..Len(pair.text) : pair.text[k] # NL

IsTag(s) ==
    /\ Len(s) \in {7, 10, 11}
    /\ s[1] = "[" /\ s[4] = ":" /\ s[Len(s)] = "]"
    /\ \A k \in {2, 3, 5, 6} : s[k] \in Digits
    /\ Len(s) > 7 => (s[7] = "." /\ \A k \in 8..(Len(s) - 1) : s[k] \in Digits)
\* The places of the line where a tag stands
TagPlaces(line) ==
    {p \in 1..Len(line) :
        \E n \in {7, 10, 11} :
            p + n - 1 <= Len(line) /\ IsTag(SubSeq(line, p, p + n - 1))}
\* The lines of the text that carry a tag and have text besides it
\* The first of them
FirstTag(line) == CHOOSE p \in TagPlaces(line) : \A q \in TagPlaces(line) : p <= q
\* The lines of the text that carry a tag and have text besides the first
KeptLines(text) ==
    SelectSeq(split(text),
              LAMBDA l : TagPlaces(l) # {} /\ textOfMatch(l, FirstTag(l)) # <<>>)

\* C25: parseLrc returns one line per input line that carries a timestamp
\* tag and has non-empty text once the tag is removed and the rest trimmed;
\* lines without a tag or without text are dropped, only the first tag of a
\* line gives its time (and only it is removed), every returned text is
\* non-empty, and empty or white-space-only input returns the empty sequence.
C25_OneLinePerTaggedLine ==
    /\ Len(parsed) = Len(KeptLines(lrcText))
    /\ \A l \in Elements(parsed) :
          /\ l.text # <<>>
          /\ trimText(l.text) = l.text
          /\ \E src \in Elements(KeptLines(lrcText)) :
                /\ l.time = timeOfMatch(src, FirstTag(src))
                /\ l.text = textOfMatch(src, FirstTag(src))
    /\ (\A k \in 1..Len(lrcText) : lrcText[k] \in WhiteSpace) => parsed = <<>>
    /\ lrcText \in {Untagged, TagAlone, TagAndBlanks, OneFractionDigit,
                     OneMinuteDigit, FourFractionDigits, ThreeMinuteDigits}
          => parsed = <<>>
    /\ lrcText = TwoTags
          => parsed = << [time |-> 5000,
                         text |-> <<"[", "0", "0", ":", "0", "1", "]", "z">>] >>
    /\ lrcText = TagInside
          => parsed = << [time |-> 4123, text |-> <<"x", "y">>] >>

\* A line with two tags before a line without one: one line came back, with
\* the time of the first tag and the second tag left in its text
C25_Witness ==
    /\ lrcText = joinLines(<<TwoTags, Untagged>>)
    /\ Len(parsed) = 1
    /\ parsed[1].time = 5000
    /\ Len(parsed[1].text) = 8

\* C26: the sequence returned by parseLrc is sorted by time in
\* non-decreasing order, whatever the order of the lines in the text.
C26_ParsedSorted == SortedByTime(parsed)

\* The line at 01:00.50 came before the line at 00:01.00 in the text and
\* after it in the result
C26_Witness ==
    /\ lrcText = joinLines(<<PaddedD, TaggedA>>)
    /\ parsed = << [time |-> 1000, text |-> <<"a">>],
                   [time |-> 60500, text |-> <<"d">>] >>

\* The current song of a playlist under an index: <<song>>, or <<>> for none
SongAt(pl, ci) == IF ci >= 0 /\ ci < Len(pl) THEN <<pl[ci + 1]>> ELSE <<>>
\* addFiles, or the lyric read that completes it, appends songs
AddFilesAppends ==
    /\ AddFilesAny \/ AddFilesLoop \/ ReadLyricAny
    /\ Len(playlist') > Len(playlist)

\* C27: when addFiles appends songs with currentIndex -1, currentIndex
\* becomes 0, song 0 is bound to the engine and isPlaying is false; with a
\* song selected, currentIndex, the current song, isPlaying and the engine
\* binding are unchanged.  A batch without an accepted audio file changes
\* nothing.
C27_AddFilesSelection ==
    [][/\ AddFilesAppends
          => IF currentIndex = -1
             THEN /\ currentIndex' = 0
                  /\ audioSrc' = playlist'[1].url
                  /\ ~isPlaying'
             ELSE /\ UNCHANGED <<currentIndex, isPlaying, audioSrc>>
                  /\ SongAt(playlist', currentIndex') = SongAt(playlist, currentIndex)
       /\ \A files \in Batches :
             (audioFilesOf(files) = <<>> /\ AddFiles(files)) => UNCHANGED vars]_vars

C29_UpdateLyricFrame ==
    [][\A index \in 0..(Len(playlist) - 1), lyricContent \in LyricInputs :
          UpdateLyric(index, lyricContent)
              => /\ playlist' = [playlist EXCEPT ![index + 1].lyric = lyricContent]
                 /\ Len(playlist') = Len(playlist)
                 /\ \A k \in 1..Len(playlist) :
                       /\ playlist'[k].id = playlist[k].id
                       /\ playlist'[k].name = playlist[k].name
                       /\ playlist'[k].url = playlist[k].url
                       /\ k # index + 1 => playlist'[k].lyric = playlist[k].lyric
                 /\ UNCHANGED <<currentIndex, isPlaying, audioSrc, fileCache>>]_vars

\* The write of updateLyric(1, text) is in flight: the second song has the
\* new lyric, the first still its own
C29_Witness ==
    /\ writes # <<>>
    /\ Head(writes).by.op = "updateLyric"
    /\ Head(writes).by.arg = 1
    /\ Len(playlist) >= 2
    /\ playlist[2].lyric = "[00:02]y"
    /\ playlist[1].lyric = LrcText

\* C30: removeSong, playIndex and updateLyric with an index outside
\* 0..playlist.length-1, and togglePlay without a current song, leave the
\* playlist, currentIndex, isPlaying, the engine binding (and its start
\* requests), the file cache and durable storage unchanged.
C30_InvalidCallsNoOp ==
    [][/\ \A index \in {-1, Len(playlist)} :
             (\/ RemoveSong(index)
              \/ PlayIndex(index)
              \/ \E lyricContent \in LyricInputs : UpdateLyric(index, lyricContent))
                 => UNCHANGED <<playlist, currentIndex, isPlaying, audioSrc,
                                playPending, fileCache, db, writes>>
       /\ \A force \in {"none", "play", "pause"} :
             (~currentSongExists /\ TogglePlay(force))
                 => UNCHANGED <<playlist, currentIndex, isPlaying, audioSrc,
                                playPending, fileCache, db, writes>>]_vars

\* Every song was removed while the player was paused: no index is valid
\* and there is no current song
C30_Witness ==
    /\ Quiet
    /\ playlist = <<>>
    /\ currentIndex = -1
    /\ db.by.op = "removeSong"
    /\ ~isPlaying

\* The indices a playlist of this model can have
SongIndices == 0..(MaxLoopNew + 1)

\* C31 (as stated): with a non-empty playlist that is no longer modified, if
\* end-of-track events keep occurring then every song of the playlist is the
\* current song infinitely often.
C31_EverySongRecurs ==
    \A k \in SongIndices :
        (/\ <>[](Len(playlist) > k)
         /\ <>[][UNCHANGED playlist]_vars
         /\ []<><<Ended>>_vars)
            => []<>(currentIndex = k)

\* C31 (amended): if from some point on the store changes by end-of-track
\* events only, and they keep occurring, then every song of the playlist is
\* the current song infinitely often; an end-of-track event on song k makes
\* song (k + 1) mod playlist.length current.
C31_EverySongRecursUndisturbed ==
    /\ \A k \in SongIndices :
          (/\ <>[](Len(playlist) > k)
           /\ <>[][Ended]_vars
           /\ []<><<Ended>>_vars)
              => []<>(currentIndex = k)
    /\ [][(Ended /\ currentIndex \in ValidIndices)
             => currentIndex' = (currentIndex + 1) % Len(playlist)]_vars

\* The first of three songs is playing again after the load, the imports
\* and their writes are done
C31_Witness ==
    /\ loadState = "done"
    /\ writes = <<>>
    /\ Len(playlist) = 3
    /\ currentIndex = 0
    /\ audioSrc = playlist[1].url
    /\ isPlaying

\* C32 (as stated): whenever the lyric store holds at least one line,
\* currentLineIndex is >= 0, the states right after a song change or a
\* lyric replacement included.
C32_LineAlwaysActive == lines # <<>> => currentLineIndex >= 0

\* C32 (amended): the song watcher leaves currentLineIndex at -1, whatever
\* the lines it stores; the time watcher makes it >= 0 when there are lines;
\* it then stays >= 0 until the song watcher runs again.
C32_LineActiveAfterTimeChange ==
    /\ [][SongWatch => currentLineIndex' = -1]_vars
    /\ [][(TimeWatch /\ lines # <<>>) => currentLineIndex' >= 0]_vars
    /\ [][(currentLineIndex >= 0 /\ ~SongWatch) => currentLineIndex' >= 0]_vars

\* The lyric of the current song was replaced by three lines while the
\* player was paused at 12 s: the lines are shown and none is active
C32_Witness ==
    /\ Flushed
    /\ ~isPlaying
    /\ currentTime = 12
    /\ Len(lines) = 3
    /\ currentLineIndex = -1

\* C33: a togglePlay call on a current song leaves isPlaying at the state it
\* asks for, and a start request that is fulfilled or interrupted leaves
\* isPlaying as the last call set it; so after any sequence of such calls
\* isPlaying is the state the last call asked for, and a pause issued while
\* a start request is pending leaves it false when the request settles.
C33_LastToggleWins ==
    [][/\ \A force \in {"none", "play", "pause"} :
             (currentSongExists /\ TogglePlay(force))
                 => isPlaying' = (IF force = "none" THEN ~isPlaying
                                  ELSE force = "play")
       /\ \A outcome \in {"ok", "abort"}, more \in BOOLEAN :
             PlaySettle(outcome, more) => isPlaying' = isPlaying]_vars

\* A pause was issued on the current song while a start request is pending
C33_Witness ==
    /\ currentSongExists
    /\ audioSrc = playlist[currentIndex + 1].url
    /\ ~isPlaying
    /\ playPending

\* C34: in every state isPlaying implies that there is a current song.
C34_PlayingHasSong == isPlaying => currentSongExists

\* No operation of the store is mid-execution: the initial load is done, no
\* addFiles call awaits a lyric read and no storage write is in flight
StoreIdle == loadState = "done" /\ calls = <<>> /\ writes = <<>>

\* C35: whenever there is a current song and no store operation is
\* mid-execution, the engine is bound to the current song.
C35_EngineBoundToCurrent ==
    (StoreIdle /\ currentSongExists) => audioSrc = playlist[currentIndex + 1].url

\* C36: whenever no addFiles call is in flight, the ids in the file cache are
\* the ids of the songs of the playlist.
C36_CacheIsPlaylist ==
    calls = <<>> => DOMAIN fileCache = {playlist[k].id : k \in 1..Len(playlist)}

\* The times of the lines are pairwise distinct
DistinctTimes(ls) == \A j, k \in 1..Len(ls) : j # k => ls[j].time # ls[k].time

\* C37: seekToLine(i) on a valid index moves currentTime to lines[i].time,
\* and the time watcher running at the time of line i, the times of the
\* lines being pairwise distinct, makes currentLineIndex i.
C37_ClickedLineActive ==
    [][\A index \in 0..(Len(lines) - 1) :
          /\ SeekToLine(index) => currentTime' = lines[index + 1].time
          /\ (TimeWatch /\ DistinctTimes(lines) /\ currentTime = lines[index + 1].time)
                => currentLineIndex' = index]_vars

\* seekToLine(1) moved to 10 s, a time only a line gives, and the time
\* watcher made the second of the three lines active
C37_Witness ==
    /\ Flushed
    /\ Len(lines) = 3
    /\ currentTime = 10
    /\ currentLineIndex = 1

\* The lines the lyric of the current song stands for: none without a current
\* song or with an absent, empty or blank lyric, else what parseLrc returns
linesOfCurrentSong ==
    IF ~currentSongExists THEN <<>>
    ELSE LET lyric == playlist[currentIndex + 1].lyric
         IN  IF lyric \in {Undefined, "", Blank} THEN <<>> ELSE parseLrc(lyric)

\* C38: once the watchers have run, the lines of the lyric store are parseLrc
\* of the lyric of the current song, and there are none when there is no
\* current song or its lyric is absent or blank.
C38_LinesOfCurrentSong == Flushed => lines = linesOfCurrentSong

\* The second song is current with its lyric replaced, the first song has
\* another lyric, and the lyric store holds the line of the second
C38_Witness ==
    /\ Quiet
    /\ currentIndex = 1
    /\ playlist[1].lyric = LrcText
    /\ playlist[2].lyric = "[00:02]y"
    /\ lines = <<[time |-> 2, text |-> "y"]>>

\* C39: the lyric store of src/store/lyricStore.ts takes the same step as
\* the rewritten one on every change of the current song or of its lyric, on
\* every change of the playback time and on every seekToLine call: the same
\* lines, currentLineIndex and noLyric, the same seek and the same
\* togglePlay.
C39_StoresEquivalent ==
    [][/\ SongWatch <=> SongWatchOriginal
       /\ TimeWatch <=> TimeWatchOriginal
       /\ \A index \in -1..Len(lines) :
             SeekToLine(index) <=> SeekToLineOriginal(index)]_vars

====
